---------------------------- MODULE Spec2Model ----------------------------
(***************************************************************************)
(* A model of the sharded edge store (src/edgestore.py).                   *)
(*                                                                         *)
(* Spec      one shard's tables edgedata / edgemeta / edgeindex under a    *)
(*           single caller issuing add and delete one after the other      *)
(*           (each call is its own transaction).                           *)
(* SpecRead  the same tables with a second parent, the caller also issuing *)
(*           query, get and count.                                         *)
(* SpecConc  the same tables under two processes, each with its own        *)
(*           connection, whose add and delete calls interleave statement   *)
(*           by statement.                                                 *)
(* SpecInstance  callers obtaining EdgeStore objects from getInstance.      *)
(* SpecLock  the table colo under concurrent tasks of two processes (each  *)
(*           process has its own EdgeStore and its own connections) that   *)
(*           call generateGid and enter and leave lock scopes.  A task is  *)
(*           switched only at a database call.                             *)
(*                                                                         *)
(* A gid is (colo << 32) + counter.  The model writes it as the pair       *)
(* <<colo, counter>>; the counters of the model stay far below 2^32, so    *)
(* the pair and the integer determine each other.                          *)
(*                                                                         *)
(* Names that the source leaves unresolved (self.NUM_HOSTS for _NUM_HOSTS, *)
(* the bare _generateGidSQL for EdgeStoreShard._generateGidSQL, indextype  *)
(* and indexrange for the two halves of `index`) are read as the           *)
(* attributes they evidently denote.                                       *)
(***************************************************************************)
EXTENDS Integers, Sequences, FiniteSets, Bags, TLC

VARIABLES
    edgedata,             \* table edgedata: primary key -> [revision, encoding, data]
    edgemeta,             \* table edgemeta: <<edgetype, gid1>> -> [revision, count]
    edgeindex,            \* table edgeindex: a bag of <<indextype, indexvalue, gid1, revision>>
    shardOverwrite,       \* EdgeStoreShard.lastAddWasOverwrite
    lastAddWasOverwrite,  \* EdgeStore.lastAddWasOverwrite
    call,                 \* the last call made: its name and arguments
    ret,                  \* what that call returned, or the error it raised
    written,              \* history: primary key -> the indices list its live version was added with
    covering,             \* history: every overwriting add and every delete so far named all the
                          \* indextypes of the edge version it removed
    colo,                 \* table colo: colocation id -> counter (uncommitted writes included)
    rowlock,              \* the connection whose open transaction wrote the colo row, or None
    txn,                  \* per connection: is a transaction open, and the rows it wrote as they
                          \* were before (<<>> for a row that did not exist)
    locked_colos,         \* EdgeStore._locked_colos of each process
    stack,                \* per task: the lock scopes it is in, innermost last
    returned,             \* history: the gids EdgeStore.generateGid has returned
    inflight,             \* per connection of SpecConc: the add or delete it is running (its
                          \* position, arguments and locals, and what its transaction has
                          \* written), the lastAddWasOverwrite flags of its shard and its
                          \* EdgeStore, and the result of its last call with the parent
                          \* and the revision the call obtained
    revlog,               \* history: the revisions committed, per (edgetype, gid1)
    instances,            \* EdgeStore._instances: dbname -> reference to an EdgeStore
    objects,              \* the EdgeStore objects constructed so far; a reference is an index
    handle                \* per caller: the dbname of its last getInstance call and the
                          \* reference the call returned

vars == <<edgedata, edgemeta, edgeindex, shardOverwrite, lastAddWasOverwrite,
          call, ret, written, covering,
          colo, rowlock, txn, locked_colos, stack, returned,
          inflight, revlog, instances, objects, handle>>

tables == <<edgedata, edgemeta, edgeindex>>
edgevars == <<edgedata, edgemeta, edgeindex, shardOverwrite, lastAddWasOverwrite,
              written, covering>>
lockvars == <<colo, rowlock, txn, locked_colos, stack, returned>>
concvars == <<inflight, revlog>>
instvars == <<instances, objects, handle>>

----------------------------------------------------------------------------
(* Bounds and input sets *)

MaxMutations == 3       \* committed adds and deletes per behaviour
MaxIndices == 2         \* longest indices list given to add
MaxIndexTypes == 2      \* longest indextypes list given to delete
MaxReadMutations == 2   \* committed adds and deletes per behaviour of SpecRead
MaxCounter == 3         \* largest counter of a colo row
MaxDepth == 2           \* lock scopes a task is in at once
NumHosts == 2           \* len(DATABASE_HOSTS)

EdgeTypes == {7, 8}
Gid1s == {<<5, 1>>, <<7, 1>>}      \* two parents of one shard (5 % 2 = 7 % 2)
Gid2s == {<<5, 2>>, <<5, 3>>}
Encodings == {1}
Datas == {"x"}
IndexTypes == {3, 4}
IndexValues == {1, 2}

\* the primary keys the caller writes: two children of one parent and the
\* same child under the other edgetype; SpecRead adds the other parent
PKs == {<<7, <<5, 1>>, <<5, 2>>>>, <<7, <<5, 1>>, <<5, 3>>>>, <<8, <<5, 1>>, <<5, 2>>>>}
ReadPKs == PKs \cup {<<7, <<7, 1>>, <<5, 2>>>>}
ReadDatas == {"x", "y"}
MetaKeys == EdgeTypes \X Gid1s

SeqsUpTo(S, n) == UNION {[1..k -> S] : k \in 0..n}

\* the (indextype, indexvalue, unique) entries callers pass: indextype 3 is
\* always passed with unique = true, indextype 4 with unique = false
IndexEntries == {<<3, 1, TRUE>>, <<3, 2, TRUE>>, <<4, 1, FALSE>>}
IndicesLists == SeqsUpTo(IndexEntries, MaxIndices)
IndexTypeLists == SeqsUpTo(IndexTypes, MaxIndexTypes)
ReadIndicesLists == SeqsUpTo(IndexEntries, 1)
ReadIndexTypeLists == SeqsUpTo(IndexTypes, 1)
IndexRanges == {<<lo, hi>> \in IndexValues \X IndexValues : lo <= hi}

\* Python's None, for an absent gid1, an absent index = <<indextype, indexrange>>
\* and an unlocked row
None == <<>>

\* one colocation: every transaction on a connection is then opened by the
\* first lock entry of its process and no transaction block is opened inside
\* another on the same connection
Colos == {5}
Tasks == {"a1", "a2", "b1"}
Facades == {"A", "B"}
facadeOf == [t \in Tasks |-> IF t = "b1" THEN "B" ELSE "A"]
Conns == Facades \X (0 .. NumHosts - 1)

NoCall == [op |-> "none"]
NoRet == [kind |-> "none"]

\* SpecInstance: the callers of getInstance and the names they pass
MaxObjects == 4         \* EdgeStore objects constructed per behaviour
Callers == {"p", "q"}
DbNames == {"edgestore", "other"}

\* SpecConc: the connections of the two processes to the host of colocations 5
\* and 7, two children of one parent and a child of a second parent, and one
\* unique index entry
MaxConcMutations == 3   \* revisions issued and not rolled back per behaviour of SpecConc
ConcConns == {conn \in Conns : conn[2] = 5 % NumHosts}
ConcPKs == {<<7, <<5, 1>>, <<5, 2>>>>, <<7, <<5, 1>>, <<5, 3>>>>, <<7, <<7, 1>>, <<5, 2>>>>}
ConcIndicesLists == SeqsUpTo({<<3, 1, TRUE>>}, 1)
ConcIndexTypeLists == SeqsUpTo({3}, 1)

\* what a transaction has written: the edgemeta row and the edgedata row as
\* they were before it (no entry for a row that did not exist) and the
\* edgeindex rows it inserted and deleted
NoUndo == [meta |-> <<>>, data |-> <<>>, added |-> EmptyBag, deleted |-> EmptyBag]

\* a connection between calls
Idle(flag, mirror, result) ==
    [pc |-> "idle", args |-> NoCall, revision |-> 0, affected |-> 0, prev |-> 0,
     rest |-> <<>>, wrote |-> FALSE, undo |-> NoUndo,
     flag |-> flag, mirror |-> mirror, result |-> result]

----------------------------------------------------------------------------
(* Table helpers *)

Range(s) == {s[i] : i \in DOMAIN s}

\* rows of a bag that satisfy no deletion predicate are kept with their multiplicity
BagWithout(B, gone) == [r \in {x \in DOMAIN B : x \notin gone} |-> B[r]]

BagCount(B, S) == BagCardinality([r \in {x \in DOMAIN B : x \in S} |-> B[r]])

Mutations == BagCardinality([k \in DOMAIN edgemeta |-> edgemeta[k].revision])

----------------------------------------------------------------------------
(* EdgeStoreShard: the SQL statements *)

\* incrementRevision adding 2 to the revision of an existing row
incrementRevisionSkips(meta, edgetype, gid1) ==
    LET k == <<edgetype, gid1>>
        row == IF k \in DOMAIN meta
                 THEN [meta[k] EXCEPT !.revision = @ + 2]
                 ELSE [revision |-> 1, count |-> 0]
    IN [edgemeta |-> [x \in DOMAIN meta \cup {k} |-> IF x = k THEN row ELSE meta[x]],
        insertid |-> row.revision]

\* _incrementRevisionSQL: upsert of the edgemeta row; the new revision is left
\* in the connection's last-insert-id register
incrementRevision(meta, edgetype, gid1) ==
    LET k == <<edgetype, gid1>>
        row == IF k \in DOMAIN meta
                 THEN [meta[k] EXCEPT !.revision = @ + 1]
                 ELSE [revision |-> 1, count |-> 0]
    IN [edgemeta |-> [x \in DOMAIN meta \cup {k} |-> IF x = k THEN row ELSE meta[x]],
        insertid |-> row.revision]

\* incrementCount ignoring the sign of inc
incrementCountUp(meta, edgetype, gid1, inc) ==
    LET k == <<edgetype, gid1>>
    IN [x \in DOMAIN meta |-> IF x = k THEN [meta[x] EXCEPT !.count = @ + 1] ELSE meta[x]]

\* _incrementCountSQL: UPDATE of the count of an existing edgemeta row
incrementCount(meta, edgetype, gid1, inc) ==
    LET k == <<edgetype, gid1>>
    IN [x \in DOMAIN meta |-> IF x = k THEN [meta[x] EXCEPT !.count = @ + inc] ELSE meta[x]]

\* _addSQL / _addOverwriteSQL.  error: the plain INSERT hit an existing primary
\* key.  affected: 1 for an insert, 2 for an update of the existing row.
\* insertid: LAST_INSERT_ID(%s) of the VALUES list on insert, and
\* LAST_INSERT_ID(revision), the row's revision before the update, on update.
addEdge(data, edgetype, gid1, gid2, revision, encoding, payload, overwrite) ==
    LET pk == <<edgetype, gid1, gid2>>
        exists == pk \in DOMAIN data
        row == [revision |-> revision, encoding |-> encoding, data |-> payload]
    IN IF exists /\ ~overwrite
         THEN [error |-> TRUE, edgedata |-> data, affected |-> 0, insertid |-> revision]
         ELSE [error |-> FALSE,
               edgedata |-> [x \in DOMAIN data \cup {pk} |-> IF x = pk THEN row ELSE data[x]],
               affected |-> IF exists THEN 2 ELSE 1,
               insertid |-> IF exists THEN data[pk].revision ELSE revision]

\* the two assertions on the last-insert-id register after the edge statement
revisionCheck(affected_rows, prev_revision, revision) ==
    IF affected_rows = 1 THEN prev_revision = revision
    ELSE IF affected_rows = 2 THEN prev_revision = revision - 1
    ELSE TRUE

\* uniqueIndex counting the rows of the indextype under a parent that does not exist
uniqueIndexBlind(index, indextype, indexvalue) == BagCount(index, {})

\* _uniqueIndexSQL
uniqueIndex(index, indextype, indexvalue) ==
    BagCount(index, {r \in DOMAIN index : r[1] = indextype /\ r[2] = indexvalue})

\* deleteIndex matching no row
deleteIndexNothing(index, indextype, gid1, revision) == BagWithout(index, {})

\* _deleteIndexSQL
deleteIndex(index, indextype, gid1, revision) ==
    BagWithout(index, {r \in DOMAIN index :
                          r[1] = indextype /\ r[3] = gid1 /\ r[4] = revision})

\* _addIndexSQL
addIndex(index, indextype, indexvalue, gid1, revision) ==
    index (+) SetToBag({<<indextype, indexvalue, gid1, revision>>})

\* the loop over indices in add; ok = FALSE when a uniqueness assertion failed
RECURSIVE addIndices(_, _, _, _, _, _)
addIndices(index, indices, gid1, revision, affected_rows, prev_revision) ==
    IF indices = <<>> THEN [ok |-> TRUE, edgeindex |-> index]
    ELSE LET i == Head(indices)
             cleared == IF affected_rows = 2
                          THEN deleteIndex(index, i[1], gid1, prev_revision)
                          ELSE index
         IN IF i[3] /\ uniqueIndex(cleared, i[1], i[2]) # 0
              THEN [ok |-> FALSE, edgeindex |-> cleared]
              ELSE addIndices(addIndex(cleared, i[1], i[2], gid1, revision),
                              Tail(indices), gid1, revision, affected_rows, prev_revision)

\* the loop over indextypes in delete stopping after the first indextype
deleteIndicesHeadOnly(index, indextypes, gid1, del_revision) ==
    IF indextypes = <<>> THEN index
    ELSE deleteIndex(index, Head(indextypes), gid1, del_revision)

\* the loop over indextypes in delete
RECURSIVE deleteIndices(_, _, _, _)
deleteIndices(index, indextypes, gid1, del_revision) ==
    IF indextypes = <<>> THEN index
    ELSE deleteIndices(deleteIndex(index, Head(indextypes), gid1, del_revision),
                       Tail(indextypes), gid1, del_revision)

\* `with self._db.transaction()`: the work is committed when the block ends
\* normally and rolled back to the state before the block when it raises (the
\* driver's transaction block, as its contract describes it)
transaction(before, after, ok) == IF ok THEN after ELSE before


----------------------------------------------------------------------------
(* EdgeStoreShard.add and EdgeStoreShard.delete, statement by statement *)

Edge(pk, row) == <<pk[1], pk[2], pk[3], row.revision, row.encoding, row.data>>

\* add issuing the revision before it opens the transaction block
shardAddRevisionOutside(edgetype, gid1, gid2, encoding, data, indices, overwrite) ==
    LET inc == incrementRevision(edgemeta, edgetype, gid1)
        before == [edgedata |-> edgedata, edgemeta |-> inc.edgemeta, edgeindex |-> edgeindex]
        revision == inc.insertid
        ins == addEdge(edgedata, edgetype, gid1, gid2, revision, encoding, data, overwrite)
        affected_rows == ins.affected
        prev_revision == ins.insertid
        meta == IF affected_rows = 1
                  THEN incrementCount(inc.edgemeta, edgetype, gid1, 1)
                  ELSE inc.edgemeta
        checked == revisionCheck(affected_rows, prev_revision, revision)
        idx == addIndices(edgeindex, indices, gid1, revision, affected_rows, prev_revision)
        error == IF ins.error THEN "duplicate key"
                 ELSE IF ~checked THEN "revision assertion"
                 ELSE IF ~idx.ok THEN "unique assertion"
                 ELSE "none"
        \* the tables as the statements run so far have left them
        after == [edgedata |-> ins.edgedata,
                  edgemeta |-> IF ins.error THEN inc.edgemeta ELSE meta,
                  edgeindex |-> IF ins.error \/ ~checked THEN edgeindex ELSE idx.edgeindex]
    IN [db |-> transaction(before, after, error = "none"),
        flag |-> IF ~ins.error /\ affected_rows = 2 THEN TRUE ELSE shardOverwrite,
        ret |-> IF error = "none"
                  THEN [kind |-> "edge", revision |-> revision, affected |-> affected_rows]
                  ELSE [kind |-> "error", error |-> error]]

\* EdgeStoreShard.add.  The result carries the tables after the transaction
\* block, the shard flag (assigned before the assertion that follows it and
\* not part of the transaction) and what the caller sees.
shardAdd(edgetype, gid1, gid2, encoding, data, indices, overwrite) ==
    LET before == [edgedata |-> edgedata, edgemeta |-> edgemeta, edgeindex |-> edgeindex]
        inc == incrementRevision(edgemeta, edgetype, gid1)
        revision == inc.insertid
        ins == addEdge(edgedata, edgetype, gid1, gid2, revision, encoding, data, overwrite)
        affected_rows == ins.affected
        prev_revision == ins.insertid
        meta == IF affected_rows = 1
                  THEN incrementCount(inc.edgemeta, edgetype, gid1, 1)
                  ELSE inc.edgemeta
        checked == revisionCheck(affected_rows, prev_revision, revision)
        idx == addIndices(edgeindex, indices, gid1, revision, affected_rows, prev_revision)
        error == IF ins.error THEN "duplicate key"
                 ELSE IF ~checked THEN "revision assertion"
                 ELSE IF ~idx.ok THEN "unique assertion"
                 ELSE "none"
        \* the tables as the statements run so far have left them
        after == [edgedata |-> ins.edgedata,
                  edgemeta |-> IF ins.error THEN inc.edgemeta ELSE meta,
                  edgeindex |-> IF ins.error \/ ~checked THEN edgeindex ELSE idx.edgeindex]
    IN [db |-> transaction(before, after, error = "none"),
        flag |-> IF ~ins.error /\ affected_rows = 2 THEN TRUE ELSE shardOverwrite,
        ret |-> IF error = "none"
                  THEN [kind |-> "edge", revision |-> revision, affected |-> affected_rows]
                  ELSE [kind |-> "error", error |-> error]]

\* delete lowering the count whether or not a row was deleted
shardDeleteCountsMissing(edgetype, gid1, gid2, indextypes) ==
    LET pk == <<edgetype, gid1, gid2>>
        inc == incrementRevision(edgemeta, edgetype, gid1)
        affected_rows == IF pk \in DOMAIN edgedata THEN 1 ELSE 0
        del_revision == IF pk \in DOMAIN edgedata THEN edgedata[pk].revision ELSE inc.insertid
        data == [x \in DOMAIN edgedata \ {pk} |-> edgedata[x]]
        meta == incrementCount(inc.edgemeta, edgetype, gid1, -1)
        index == IF affected_rows # 0
                   THEN deleteIndices(edgeindex, indextypes, gid1, del_revision)
                   ELSE edgeindex
    IN [db |-> [edgedata |-> data, edgemeta |-> meta, edgeindex |-> index],
        ret |-> [kind |-> "bool", value |-> (affected_rows = 1)]]

\* EdgeStoreShard.delete.  _deleteSQL leaves the deleted row's revision in the
\* last-insert-id register; when no row matches, the register still holds the
\* revision just issued.
shardDelete(edgetype, gid1, gid2, indextypes) ==
    LET pk == <<edgetype, gid1, gid2>>
        inc == incrementRevision(edgemeta, edgetype, gid1)
        affected_rows == IF pk \in DOMAIN edgedata THEN 1 ELSE 0
        del_revision == IF pk \in DOMAIN edgedata THEN edgedata[pk].revision ELSE inc.insertid
        data == [x \in DOMAIN edgedata \ {pk} |-> edgedata[x]]
        meta == IF affected_rows # 0
                  THEN incrementCount(inc.edgemeta, edgetype, gid1, -1)
                  ELSE inc.edgemeta
        asserted == affected_rows = 0 \/ del_revision # 0
        index == IF affected_rows # 0
                   THEN deleteIndices(edgeindex, indextypes, gid1, del_revision)
                   ELSE edgeindex
        before == [edgedata |-> edgedata, edgemeta |-> edgemeta, edgeindex |-> edgeindex]
        after == [edgedata |-> data, edgemeta |-> meta, edgeindex |-> index]
    IN [db |-> transaction(before, after, asserted),
        ret |-> IF asserted
                  THEN [kind |-> "bool", value |-> (affected_rows = 1)]
                  ELSE [kind |-> "error", error |-> "missing revision"]]

----------------------------------------------------------------------------
(* Reads.  A result is the set of edge rows returned; the ORDER BY of the   *)
(* statements and repeated rows of a join are not represented.              *)

\* _listSQL
list(edgetype, gid1) ==
    {Edge(pk, edgedata[pk]) : pk \in {x \in DOMAIN edgedata : x[1] = edgetype /\ x[2] = gid1}}

\* _listIndexSQL
listIndex(edgetype, gid1, indextype, lo, hi) ==
    {Edge(pk, edgedata[pk]) : pk \in {x \in DOMAIN edgedata :
        /\ x[1] = edgetype
        /\ x[2] = gid1
        /\ \E r \in DOMAIN edgeindex :
              /\ edgedata[x].revision = r[4]
              /\ r[1] = indextype
              /\ lo <= r[2] /\ r[2] <= hi}}

\* _searchIndexSQL
searchIndex(edgetype, indextype, lo, hi) ==
    {Edge(pk, edgedata[pk]) : pk \in {x \in DOMAIN edgedata :
        /\ x[1] = edgetype
        /\ \E r \in DOMAIN edgeindex :
              /\ x[2] = r[3]
              /\ edgedata[x].revision = r[4]
              /\ r[1] = indextype
              /\ lo <= r[2] /\ r[2] <= hi}}

\* _getSQL
getEdge(edgetype, gid1, gid2) ==
    {Edge(pk, edgedata[pk]) : pk \in {x \in DOMAIN edgedata : x = <<edgetype, gid1, gid2>>}}

\* _getIndexSQL
getIndex(edgetype, gid1, gid2, indextype, lo, hi) ==
    {Edge(pk, edgedata[pk]) : pk \in {x \in DOMAIN edgedata :
        /\ x = <<edgetype, gid1, gid2>>
        /\ \E r \in DOMAIN edgeindex :
              /\ edgedata[x].revision = r[4]
              /\ r[1] = indextype
              /\ lo <= r[2] /\ r[2] <= hi}}

\* EdgeStoreShard.query: the three modes
shardQuery(edgetype, index, gid1) ==
    IF gid1 # None /\ index # None
      THEN listIndex(edgetype, gid1, index[1], index[2][1], index[2][2])
    ELSE IF gid1 # None
      THEN list(edgetype, gid1)
    ELSE searchIndex(edgetype, index[1], index[2][1], index[2][2])

\* EdgeStoreShard.get
shardGet(edgetype, gid1, gid2, index) ==
    IF index # None
      THEN getIndex(edgetype, gid1, gid2, index[1], index[2][1], index[2][2])
      ELSE getEdge(edgetype, gid1, gid2)

\* EdgeStoreShard.count
shardCount(edgetype, gid1) ==
    IF <<edgetype, gid1>> \in DOMAIN edgemeta THEN edgemeta[<<edgetype, gid1>>].count ELSE 0

----------------------------------------------------------------------------
(* EdgeStore: the calls of one caller on the shard *)

\* the indextypes of the indices list the live version of pk was added with
TypesOf(pk) == IF pk \in DOMAIN written THEN {i[1] : i \in Range(written[pk])} ELSE {}

Init ==
    /\ edgedata = <<>>
    /\ edgemeta = <<>>
    /\ edgeindex = EmptyBag
    /\ shardOverwrite = FALSE
    /\ lastAddWasOverwrite = FALSE
    /\ call = NoCall
    /\ ret = NoRet
    /\ written = <<>>
    /\ covering = TRUE
    /\ colo = <<>>
    /\ rowlock = [c \in Colos |-> None]
    /\ txn = [conn \in Conns |-> [active |-> FALSE, undo |-> <<>>]]
    /\ locked_colos = [f \in Facades |-> {}]
    /\ stack = [t \in Tasks |-> <<>>]
    /\ returned = {}
    /\ inflight = [conn \in ConcConns |-> Idle(FALSE, FALSE, NoRet)]
    /\ revlog = [k \in MetaKeys |-> {}]
    /\ instances = <<>>
    /\ objects = <<>>
    /\ handle = [t \in Callers |-> None]

\* EdgeStore.add
Add(edgetype, gid1, gid2, encoding, data, indices, overwrite) ==
    LET r == shardAdd(edgetype, gid1, gid2, encoding, data, indices, overwrite)
        pk == <<edgetype, gid1, gid2>>
    IN /\ Mutations < MaxMutations
       /\ edgedata' = r.db.edgedata
       /\ edgemeta' = r.db.edgemeta
       /\ edgeindex' = r.db.edgeindex
       /\ shardOverwrite' = r.flag
       /\ lastAddWasOverwrite' = IF r.ret.kind = "edge" THEN r.flag ELSE lastAddWasOverwrite
       /\ call' = [op |-> "add", edgetype |-> edgetype, gid1 |-> gid1, gid2 |-> gid2,
                   overwrite |-> overwrite]
       /\ ret' = r.ret
       /\ written' = IF r.ret.kind = "edge"
                       THEN [x \in DOMAIN written \cup {pk} |->
                                IF x = pk THEN indices ELSE written[x]]
                       ELSE written
       /\ covering' = IF r.ret.kind = "edge"
                        THEN covering /\ TypesOf(pk) \subseteq {i[1] : i \in Range(indices)}
                        ELSE covering
       /\ UNCHANGED <<lockvars, concvars, instvars>>

\* EdgeStore.delete
Delete(edgetype, gid1, gid2, indextypes) ==
    LET r == shardDelete(edgetype, gid1, gid2, indextypes)
        pk == <<edgetype, gid1, gid2>>
    IN /\ Mutations < MaxMutations
       /\ edgedata' = r.db.edgedata
       /\ edgemeta' = r.db.edgemeta
       /\ edgeindex' = r.db.edgeindex
       /\ call' = [op |-> "delete", edgetype |-> edgetype, gid1 |-> gid1, gid2 |-> gid2,
                   indextypes |-> indextypes]
       /\ ret' = r.ret
       /\ written' = [x \in DOMAIN r.db.edgedata |-> written[x]]
       /\ covering' = (covering /\ TypesOf(pk) \subseteq Range(indextypes))
       /\ UNCHANGED <<shardOverwrite, lastAddWasOverwrite, lockvars, concvars, instvars>>

\* EdgeStore.query routed to the shard (by gid1, or by colo with gid1 = None)
Query(edgetype, index, gid1) ==
    /\ gid1 # None \/ index # None
    /\ call' = [op |-> "query", edgetype |-> edgetype, index |-> index, gid1 |-> gid1]
    /\ ret' = [kind |-> "rows", rows |-> shardQuery(edgetype, index, gid1)]
    /\ UNCHANGED <<edgevars, lockvars, concvars, instvars>>

\* EdgeStore.get
Get(edgetype, gid1, gid2, index) ==
    /\ call' = [op |-> "get", edgetype |-> edgetype, gid1 |-> gid1, gid2 |-> gid2,
                index |-> index]
    /\ ret' = [kind |-> "rows", rows |-> shardGet(edgetype, gid1, gid2, index)]
    /\ UNCHANGED <<edgevars, lockvars, concvars, instvars>>

\* EdgeStore.count
Count(edgetype, gid1) ==
    /\ call' = [op |-> "count", edgetype |-> edgetype, gid1 |-> gid1]
    /\ ret' = [kind |-> "int", value |-> shardCount(edgetype, gid1)]
    /\ UNCHANGED <<edgevars, lockvars, concvars, instvars>>

IndexArgs == {None} \cup {<<t, rg>> : t \in IndexTypes, rg \in IndexRanges}

Next ==
    \/ \E pk \in PKs, encoding \in Encodings, data \in Datas,
          indices \in IndicesLists, overwrite \in BOOLEAN :
          Add(pk[1], pk[2], pk[3], encoding, data, indices, overwrite)
    \/ \E pk \in PKs, indextypes \in IndexTypeLists :
          Delete(pk[1], pk[2], pk[3], indextypes)

Spec == Init /\ [][Next]_vars

NextRead ==
    \/ \E pk \in ReadPKs, encoding \in Encodings, data \in ReadDatas,
          indices \in ReadIndicesLists, overwrite \in BOOLEAN :
          /\ Mutations < MaxReadMutations
          /\ Add(pk[1], pk[2], pk[3], encoding, data, indices, overwrite)
    \/ \E pk \in ReadPKs, indextypes \in ReadIndexTypeLists :
          /\ Mutations < MaxReadMutations
          /\ Delete(pk[1], pk[2], pk[3], indextypes)
    \/ \E edgetype \in EdgeTypes, index \in IndexArgs, gid1 \in Gid1s \cup {None} :
          Query(edgetype, index, gid1)
    \/ \E pk \in ReadPKs, index \in IndexArgs :
          Get(pk[1], pk[2], pk[3], index)
    \/ \E k \in MetaKeys : Count(k[1], k[2])

SpecRead == Init /\ [][NextRead]_vars


----------------------------------------------------------------------------
(* Gids, lock scopes and transactions on the table colo *)

\* (colo << 32) + counter
Gid(c, counter) == <<c, counter>>

\* EdgeStore._getColoShard: the connection of process f to the host of c
connOf(f, c) == <<f, c % NumHosts>>

\* _generateGidSQL: the row is inserted with counter = start or its counter is
\* raised by one; the new counter is left in the last-insert-id register
generateGidSQL(rows, c, start) ==
    LET counter == IF c \in DOMAIN rows THEN rows[c] + 1 ELSE start
    IN [colo |-> [x \in DOMAIN rows \cup {c} |-> IF x = c THEN counter ELSE rows[x]],
        insertid |-> counter]

\* the statement can run when no open transaction of another connection has
\* written the row
CanWrite(conn, c) ==
    /\ rowlock[c] \in {None, conn}
    /\ c \in DOMAIN colo => colo[c] < MaxCounter

\* EdgeStoreShard.generateGid on connection conn.  Inside an open transaction
\* the row stays locked and its old value is kept for a rollback; outside the
\* statement commits by itself.
shardGenerateGid(conn, c, start) ==
    LET w == generateGidSQL(colo, c, start)
        old == IF c \in DOMAIN colo THEN <<colo[c]>> ELSE <<>>
        undo == txn[conn].undo
    IN [colo |-> w.colo,
        rowlock |-> IF txn[conn].active THEN [rowlock EXCEPT ![c] = conn] ELSE rowlock,
        txn |-> IF txn[conn].active /\ c \notin DOMAIN undo
                  THEN [txn EXCEPT ![conn].undo =
                           [x \in DOMAIN undo \cup {c} |-> IF x = c THEN old ELSE undo[x]]]
                  ELSE txn,
        gid |-> Gid(c, w.insertid)]

\* the end of a transaction block: commit keeps the rows, rollback puts back
\* what the transaction overwrote; both release the rows
rowsAfter(conn, commit) ==
    LET undo == txn[conn].undo
        gone == {c \in DOMAIN undo : undo[c] = <<>>}
    IN IF commit THEN colo
       ELSE [c \in DOMAIN colo \ gone |-> IF c \in DOMAIN undo THEN undo[c][1] ELSE colo[c]]

locksAfter(conn) == [c \in Colos |-> IF rowlock[c] = conn THEN None ELSE rowlock[c]]

Top(t) == stack[t][Len(stack[t])]
Blocked(t) == stack[t] # <<>> /\ Top(t).kind = "waiting"
Pop(t) == [stack EXCEPT ![t] = SubSeq(@, 1, Len(@) - 1)]

\* EdgeStore.generateGid(colo = c) by task t
GenerateGid(t, c) ==
    LET conn == connOf(facadeOf[t], c)
        r == shardGenerateGid(conn, c, 1)
    IN /\ ~Blocked(t)
       /\ CanWrite(conn, c)
       /\ colo' = r.colo
       /\ rowlock' = r.rowlock
       /\ txn' = r.txn
       /\ returned' = returned \cup {r.gid}
       /\ call' = [op |-> "generateGid", task |-> t, colo |-> c]
       /\ ret' = [kind |-> "gid", gid |-> r.gid, before |-> r.gid \in returned]
       /\ UNCHANGED <<edgevars, concvars, instvars, locked_colos, stack>>

\* lock without the test for a marked colocation: every entry is a first entry
LockEnterAlwaysFirst(t, c) ==
    LET f == facadeOf[t]
        conn == connOf(f, c)
    IN /\ ~Blocked(t)
       /\ Len(stack[t]) < MaxDepth
       /\ locked_colos' = [locked_colos EXCEPT ![f] = @ \cup {c}]
       /\ txn' = [txn EXCEPT ![conn].active = TRUE]
       /\ stack' = [stack EXCEPT ![t] = Append(@, [colo |-> c, kind |-> "waiting"])]
       /\ call' = [op |-> "lock", task |-> t, colo |-> c, nested |-> FALSE]
       /\ ret' = NoRet
       /\ UNCHANGED <<edgevars, concvars, instvars, colo, rowlock, returned>>

\* EdgeStore.lock(c) by task t, up to the lock probe: a nested entry yields at
\* once; a first entry marks the colocation and opens the shard transaction
LockEnter(t, c) ==
    LET f == facadeOf[t]
        conn == connOf(f, c)
        nested == c \in locked_colos[f]
    IN /\ ~Blocked(t)
       /\ Len(stack[t]) < MaxDepth
       /\ locked_colos' = [locked_colos EXCEPT ![f] = @ \cup {c}]
       /\ txn' = IF nested THEN txn ELSE [txn EXCEPT ![conn].active = TRUE]
       /\ stack' = [stack EXCEPT ![t] =
                       Append(@, [colo |-> c, kind |-> IF nested THEN "nested" ELSE "waiting"])]
       /\ call' = [op |-> "lock", task |-> t, colo |-> c, nested |-> nested]
       /\ ret' = NoRet
       /\ UNCHANGED <<edgevars, concvars, instvars, colo, rowlock, returned>>

\* EdgeStoreShard.lock: the probe of a first entry, after which the body runs
LockProbe(t) ==
    /\ Blocked(t)
    /\ LET c == Top(t).colo
           conn == connOf(facadeOf[t], c)
           r == shardGenerateGid(conn, c, 0)
       IN /\ txn[conn].active
          /\ CanWrite(conn, c)
          /\ colo' = r.colo
          /\ rowlock' = r.rowlock
          /\ txn' = r.txn
          /\ stack' = [stack EXCEPT ![t][Len(stack[t])].kind = "held"]
          /\ call' = [op |-> "probe", task |-> t, colo |-> c]
          /\ ret' = [kind |-> "gid", gid |-> r.gid]
          /\ UNCHANGED <<edgevars, concvars, instvars, locked_colos, returned>>

\* the end of a scope without the finally clause: the colocation is unmarked
\* only when the scope ends normally
LeaveScopeKeepsMarker(t, commit, op) ==
    /\ stack[t] # <<>>
    /\ LET c == Top(t).colo
           f == facadeOf[t]
           conn == connOf(f, c)
           nested == Top(t).kind = "nested"
       IN /\ colo' = IF nested THEN colo ELSE rowsAfter(conn, commit)
          /\ rowlock' = IF nested THEN rowlock ELSE locksAfter(conn)
          /\ txn' = IF nested THEN txn
                    ELSE [txn EXCEPT ![conn] = [active |-> FALSE, undo |-> <<>>]]
          /\ locked_colos' = IF nested \/ ~commit THEN locked_colos
                             ELSE [locked_colos EXCEPT ![f] = @ \ {c}]
          /\ stack' = Pop(t)
          /\ call' = [op |-> op, task |-> t, colo |-> c, nested |-> nested]
          /\ ret' = NoRet
          /\ UNCHANGED <<edgevars, concvars, instvars, returned>>

\* the end of a scope where a nested scope, too, ends the transaction block
LeaveScopeEndsTransaction(t, commit, op) ==
    /\ stack[t] # <<>>
    /\ LET c == Top(t).colo
           f == facadeOf[t]
           conn == connOf(f, c)
           nested == Top(t).kind = "nested"
       IN /\ colo' = rowsAfter(conn, commit)
          /\ rowlock' = locksAfter(conn)
          /\ txn' = [txn EXCEPT ![conn] = [active |-> FALSE, undo |-> <<>>]]
          /\ locked_colos' = IF nested THEN locked_colos
                             ELSE [locked_colos EXCEPT ![f] = @ \ {c}]
          /\ stack' = Pop(t)
          /\ call' = [op |-> op, task |-> t, colo |-> c, nested |-> nested]
          /\ ret' = NoRet
          /\ UNCHANGED <<edgevars, concvars, instvars, returned>>

\* the end of the innermost lock scope of task t: a nested scope just ends; a
\* first entry ends its transaction block (commit on a normal exit, rollback on
\* an exception) and, in the finally clause, unmarks the colocation
LeaveScope(t, commit, op) ==
    /\ stack[t] # <<>>
    /\ LET c == Top(t).colo
           f == facadeOf[t]
           conn == connOf(f, c)
           nested == Top(t).kind = "nested"
       IN /\ colo' = IF nested THEN colo ELSE rowsAfter(conn, commit)
          /\ rowlock' = IF nested THEN rowlock ELSE locksAfter(conn)
          /\ txn' = IF nested THEN txn
                    ELSE [txn EXCEPT ![conn] = [active |-> FALSE, undo |-> <<>>]]
          /\ locked_colos' = IF nested THEN locked_colos
                             ELSE [locked_colos EXCEPT ![f] = @ \ {c}]
          /\ stack' = Pop(t)
          /\ call' = [op |-> op, task |-> t, colo |-> c, nested |-> nested]
          /\ ret' = NoRet
          /\ UNCHANGED <<edgevars, concvars, instvars, returned>>

\* a first entry of lock(c) whose shard.transaction() raises: the colocation
\* is marked, no transaction is open when the exception leaves the try block,
\* and the finally clause unmarks the colocation; the caller's body never runs
LockOpenFails(t, c) ==
    LET f == facadeOf[t]
        marked == [locked_colos EXCEPT ![f] = @ \cup {c}]
    IN /\ ~Blocked(t)
       /\ c \notin locked_colos[f]
       /\ locked_colos' = [marked EXCEPT ![f] = @ \ {c}]
       /\ call' = [op |-> "open failed", task |-> t, colo |-> c, nested |-> FALSE]
       /\ ret' = NoRet
       /\ UNCHANGED <<edgevars, concvars, instvars, colo, rowlock, txn, stack, returned>>

\* the body of the innermost scope ends normally
LockExit(t) == ~Blocked(t) /\ LeaveScope(t, TRUE, "exit")

\* the body of the innermost scope raises
LockRaise(t) == ~Blocked(t) /\ LeaveScope(t, FALSE, "raise")

\* the probe raises (a lock wait timeout, a deadlock, a lost connection)
LockProbeFails(t) == Blocked(t) /\ LeaveScope(t, FALSE, "probe failed")

NextLock ==
    \/ \E t \in Tasks, c \in Colos : GenerateGid(t, c)
    \/ \E t \in Tasks, c \in Colos : LockEnter(t, c)
    \/ \E t \in Tasks : LockProbe(t)
    \/ \E t \in Tasks : LockExit(t)
    \/ \E t \in Tasks : LockRaise(t)
    \/ \E t \in Tasks : LockProbeFails(t)
    \/ \E t \in Tasks, c \in Colos : LockOpenFails(t, c)

SpecLock == Init /\ [][NextLock]_vars

----------------------------------------------------------------------------
(* Two connections running add and delete concurrently, one statement at a  *)
(* time.  A statement writes the tables in place; a row written by an open  *)
(* transaction is locked until the transaction ends, and a statement that   *)
(* needs a locked row waits (its action is not enabled).                    *)

Other(conn) == CHOOSE o \in ConcConns : o # conn

Busy(conn) == inflight[conn].pc # "idle"

ParentOf(conn) == <<inflight[conn].args.edgetype, inflight[conn].args.gid1>>

\* the edgemeta row of k is locked by the open transaction of another connection
MetaLocked(conn, k) == \E o \in ConcConns \ {conn} : Busy(o) /\ ParentOf(o) = k

\* the rows of edgeindex a plain SELECT of conn reads: the committed rows and
\* the rows its own transaction wrote
Visible(conn) ==
    LET o == inflight[Other(conn)].undo
    IN (edgeindex (-) o.added) (+) o.deleted

\* the rows of edgeindex that are committed
CommittedIndex ==
    LET a == inflight[CHOOSE c \in ConcConns : TRUE]
        b == inflight[Other(CHOOSE c \in ConcConns : TRUE)]
    IN ((edgeindex (-) a.undo.added) (-) b.undo.added) (+) a.undo.deleted (+) b.undo.deleted

Matching(index, indextype, gid1, revision) ==
    [r \in {x \in DOMAIN index : x[1] = indextype /\ x[3] = gid1 /\ x[4] = revision}
        |-> index[r]]

\* a DELETE on edgeindex reaches a row that another open transaction wrote
IndexLocked(conn, indextype, gid1, revision) ==
    LET o == inflight[Other(conn)].undo
    IN Matching(o.added (+) o.deleted, indextype, gid1, revision) # EmptyBag

\* the tables after the transaction of conn is rolled back
rolledBack(conn) ==
    LET f == inflight[conn]
        k == ParentOf(conn)
        pk == <<f.args.edgetype, f.args.gid1, f.args.gid2>>
        u == f.undo
    IN [edgemeta |-> [x \in (DOMAIN edgemeta \ {k}) \cup DOMAIN u.meta |->
                         IF x \in DOMAIN u.meta THEN u.meta[x] ELSE edgemeta[x]],
        edgedata |-> IF f.wrote
                       THEN [x \in (DOMAIN edgedata \ {pk}) \cup DOMAIN u.data |->
                                IF x \in DOMAIN u.data THEN u.data[x] ELSE edgedata[x]]
                       ELSE edgedata,
        edgeindex |-> (edgeindex (-) u.added) (+) u.deleted]

\* the position after the statement for the first of the index entries `rest`
\* of an add is due
IndexPc(rest, affected_rows) ==
    IF rest = <<>> THEN "commit"
    ELSE IF affected_rows = 2 THEN "delidx"
    ELSE IF Head(rest)[3] THEN "check"
    ELSE "insert"

\* the statement of conn raised: its transaction block rolls back and the call
\* ends with the error
Fails(conn, flag, error) ==
    LET db == rolledBack(conn)
    IN /\ edgedata' = db.edgedata
       /\ edgemeta' = db.edgemeta
       /\ edgeindex' = db.edgeindex
       /\ inflight' = [inflight EXCEPT ![conn] =
                          Idle(flag, @.mirror,
                               [kind |-> "error", parent |-> ParentOf(conn),
                                revision |-> @.revision, error |-> error])]
       /\ UNCHANGED revlog

ConcArgs ==
    [op : {"add"}, edgetype : {7}, gid1 : Gid1s, gid2 : Gid2s, encoding : Encodings,
     data : Datas, indices : ConcIndicesLists, overwrite : BOOLEAN, indextypes : {<<>>}]
    \cup
    [op : {"delete"}, edgetype : {7}, gid1 : Gid1s, gid2 : Gid2s, encoding : Encodings,
     data : Datas, indices : {<<>>}, overwrite : {FALSE}, indextypes : ConcIndexTypeLists]

frame == <<shardOverwrite, lastAddWasOverwrite, call, ret, written, covering, lockvars,
           instvars>>

\* ConcBegin without the wait for the edgemeta row
ConcBeginNoWait(conn, args) ==
    LET k == <<args.edgetype, args.gid1>>
        inc == incrementRevision(edgemeta, args.edgetype, args.gid1)
    IN /\ ~Busy(conn)
       /\ Mutations < MaxConcMutations
       /\ edgemeta' = inc.edgemeta
       /\ inflight' = [inflight EXCEPT ![conn] =
              [@ EXCEPT !.pc = "edge", !.args = args, !.revision = inc.insertid,
                        !.undo = [NoUndo EXCEPT !.meta =
                                     [x \in {k} \cap DOMAIN edgemeta |-> edgemeta[x]]],
                        !.result = NoRet]]
       /\ UNCHANGED <<edgedata, edgeindex, revlog, frame>>

\* add and delete up to `self._incrementRevision(edgetype, gid1)`: the
\* transaction block opens and the upsert of the edgemeta row runs, after a
\* wait for the row if another open transaction wrote it
ConcBegin(conn, args) ==
    LET k == <<args.edgetype, args.gid1>>
        inc == incrementRevision(edgemeta, args.edgetype, args.gid1)
    IN /\ ~Busy(conn)
       /\ Mutations < MaxConcMutations
       /\ ~MetaLocked(conn, k)
       /\ edgemeta' = inc.edgemeta
       /\ inflight' = [inflight EXCEPT ![conn] =
              [@ EXCEPT !.pc = "edge", !.args = args, !.revision = inc.insertid,
                        !.undo = [NoUndo EXCEPT !.meta =
                                     [x \in {k} \cap DOMAIN edgemeta |-> edgemeta[x]]],
                        !.result = NoRet]]
       /\ UNCHANGED <<edgedata, edgeindex, revlog, frame>>

\* add: the edge statement, the count and the assertion on the previous revision
ConcAddEdge(conn) ==
    LET f == inflight[conn]
        a == f.args
        pk == <<a.edgetype, a.gid1, a.gid2>>
        ins == addEdge(edgedata, a.edgetype, a.gid1, a.gid2, f.revision, a.encoding,
                       a.data, a.overwrite)
        flag == IF ~ins.error /\ ins.affected = 2 THEN TRUE ELSE f.flag
    IN /\ f.pc = "edge"
       /\ a.op = "add"
       /\ IF ins.error
            THEN Fails(conn, flag, "duplicate key")
          ELSE IF ~revisionCheck(ins.affected, ins.insertid, f.revision)
            THEN Fails(conn, flag, "revision assertion")
          ELSE /\ edgedata' = ins.edgedata
               /\ edgemeta' = IF ins.affected = 1
                                THEN incrementCount(edgemeta, a.edgetype, a.gid1, 1)
                                ELSE edgemeta
               /\ inflight' = [inflight EXCEPT ![conn] =
                      [@ EXCEPT !.pc = IndexPc(a.indices, ins.affected),
                                !.affected = ins.affected, !.prev = ins.insertid,
                                !.rest = a.indices, !.wrote = TRUE, !.flag = flag,
                                !.undo.data = [x \in {pk} \cap DOMAIN edgedata |-> edgedata[x]]]]
               /\ UNCHANGED <<edgeindex, revlog>>
       /\ UNCHANGED frame

\* delete: _deleteSQL, the read of the deleted row's revision and the count
ConcDeleteEdge(conn) ==
    LET f == inflight[conn]
        a == f.args
        pk == <<a.edgetype, a.gid1, a.gid2>>
        affected_rows == IF pk \in DOMAIN edgedata THEN 1 ELSE 0
        del_revision == IF pk \in DOMAIN edgedata THEN edgedata[pk].revision ELSE f.revision
        rest == IF affected_rows # 0 THEN a.indextypes ELSE <<>>
    IN /\ f.pc = "edge"
       /\ a.op = "delete"
       /\ edgedata' = [x \in DOMAIN edgedata \ {pk} |-> edgedata[x]]
       /\ edgemeta' = IF affected_rows # 0
                        THEN incrementCount(edgemeta, a.edgetype, a.gid1, -1)
                        ELSE edgemeta
       /\ inflight' = [inflight EXCEPT ![conn] =
              [@ EXCEPT !.pc = IF rest = <<>> THEN "commit" ELSE "delidx",
                        !.affected = affected_rows, !.prev = del_revision,
                        !.rest = rest, !.wrote = TRUE,
                        !.undo.data = [x \in {pk} \cap DOMAIN edgedata |-> edgedata[x]]]]
       /\ UNCHANGED <<edgeindex, revlog, frame>>

\* _deleteIndexSQL in the loop of add (for the previous revision of an
\* overwritten edge) or of delete (for the revision of the deleted edge)
ConcDeleteIndex(conn) ==
    LET f == inflight[conn]
        a == f.args
        entry == Head(f.rest)
        indextype == IF a.op = "add" THEN entry[1] ELSE entry
        gone == Matching(edgeindex, indextype, a.gid1, f.prev)
    IN /\ f.pc = "delidx"
       /\ ~IndexLocked(conn, indextype, a.gid1, f.prev)
       /\ edgeindex' = deleteIndex(edgeindex, indextype, a.gid1, f.prev)
       /\ inflight' = [inflight EXCEPT ![conn] =
              [@ EXCEPT !.undo.deleted = @ (+) gone,
                        !.rest = IF a.op = "add" THEN f.rest ELSE Tail(f.rest),
                        !.pc = IF a.op = "add"
                                 THEN (IF entry[3] THEN "check" ELSE "insert")
                               ELSE IF Tail(f.rest) = <<>> THEN "commit"
                               ELSE "delidx"]]
       /\ UNCHANGED <<edgedata, edgemeta, revlog, frame>>

\* _uniqueIndexSQL and the assertion on its count
ConcCheckUnique(conn) ==
    LET f == inflight[conn]
        entry == Head(f.rest)
    IN /\ f.pc = "check"
       /\ IF uniqueIndex(Visible(conn), entry[1], entry[2]) # 0
            THEN Fails(conn, f.flag, "unique assertion")
            ELSE /\ inflight' = [inflight EXCEPT ![conn].pc = "insert"]
                 /\ UNCHANGED <<tables, revlog>>
       /\ UNCHANGED frame

\* _addIndexSQL, and on to the next index entry
ConcAddIndex(conn) ==
    LET f == inflight[conn]
        entry == Head(f.rest)
        row == <<entry[1], entry[2], f.args.gid1, f.revision>>
    IN /\ f.pc = "insert"
       /\ edgeindex' = addIndex(edgeindex, entry[1], entry[2], f.args.gid1, f.revision)
       /\ inflight' = [inflight EXCEPT ![conn] =
              [@ EXCEPT !.undo.added = @ (+) SetToBag({row}),
                        !.rest = Tail(f.rest),
                        !.pc = IndexPc(Tail(f.rest), f.affected)]]
       /\ UNCHANGED <<edgedata, edgemeta, revlog, frame>>

\* the transaction block ends normally: the commit, the return of the shard
\* method and, for add, the copy of the shard flag to the EdgeStore
ConcCommit(conn) ==
    LET f == inflight[conn]
        k == ParentOf(conn)
        result == IF f.args.op = "add"
                    THEN [kind |-> "edge", parent |-> k, revision |-> f.revision,
                          affected |-> f.affected]
                    ELSE [kind |-> "bool", parent |-> k, revision |-> f.revision,
                          value |-> (f.affected = 1)]
    IN /\ f.pc = "commit"
       /\ inflight' = [inflight EXCEPT ![conn] =
              Idle(f.flag, IF f.args.op = "add" THEN f.flag ELSE f.mirror, result)]
       /\ revlog' = [revlog EXCEPT ![k] = @ \cup {f.revision}]
       /\ UNCHANGED <<tables, frame>>

\* a statement of the open transaction raises a driver error (a lock wait
\* timeout, a deadlock, a lost connection)
ConcAbort(conn) ==
    /\ Busy(conn)
    /\ Fails(conn, inflight[conn].flag, "driver error")
    /\ UNCHANGED frame

NextConc ==
    \/ \E conn \in ConcConns, args \in ConcArgs :
          /\ <<args.edgetype, args.gid1, args.gid2>> \in ConcPKs
          /\ ConcBegin(conn, args)
    \/ \E conn \in ConcConns : ConcAddEdge(conn)
    \/ \E conn \in ConcConns : ConcDeleteEdge(conn)
    \/ \E conn \in ConcConns : ConcDeleteIndex(conn)
    \/ \E conn \in ConcConns : ConcCheckUnique(conn)
    \/ \E conn \in ConcConns : ConcAddIndex(conn)
    \/ \E conn \in ConcConns : ConcCommit(conn)
    \/ \E conn \in ConcConns : ConcAbort(conn)

SpecConc == Init /\ [][NextConc]_vars

----------------------------------------------------------------------------
(* EdgeStore.getInstance *)

\* EdgeStore.__init__
EdgeStore(dbname) ==
    [dbname |-> dbname, shards |-> <<>>, locked_colos |-> {}, lastAddWasOverwrite |-> FALSE]

\* EdgeStore.getInstance(dbname) called by t: the lookup in _instances, the
\* construction of a new object when the lookup finds none, and the return;
\* no statement of the method writes _instances
GetInstance(t, dbname) ==
    LET instance == IF dbname \in DOMAIN instances THEN instances[dbname] ELSE None
    IN /\ IF instance = None
            THEN /\ Len(objects) < MaxObjects
                 /\ objects' = Append(objects, EdgeStore(dbname))
                 /\ handle' = [handle EXCEPT ![t] =
                                  [dbname |-> dbname, ref |-> Len(objects) + 1]]
            ELSE /\ objects' = objects
                 /\ handle' = [handle EXCEPT ![t] = [dbname |-> dbname, ref |-> instance]]
       /\ UNCHANGED <<instances, edgevars, call, ret, lockvars, concvars>>

NextInstance == \E t \in Callers, dbname \in DbNames : GetInstance(t, dbname)

SpecInstance == Init /\ [][NextInstance]_vars

----------------------------------------------------------------------------
(* Properties of the tables *)

KeyOf(c) == <<c.edgetype, c.gid1>>
PKOf(c) == <<c.edgetype, c.gid1, c.gid2>>

countOf(meta, k) == IF k \in DOMAIN meta THEN meta[k].count ELSE 0
revisionOf(meta, k) == IF k \in DOMAIN meta THEN meta[k].revision ELSE 0
RowsUnder(data, k) == {pk \in DOMAIN data : pk[1] = k[1] /\ pk[2] = k[2]}

Inserted(c, r) == c.op = "add" /\ r.kind = "edge" /\ r.affected = 1
Overwrote(c, r) == c.op = "add" /\ r.kind = "edge" /\ r.affected = 2
Removed(c, r) == c.op = "delete" /\ r.kind = "bool" /\ r.value
Committed(c, r) == (c.op = "add" /\ r.kind = "edge") \/ (c.op = "delete" /\ r.kind = "bool")

CountMatchesRows ==
    \A k \in MetaKeys : countOf(edgemeta, k) = Cardinality(RowsUnder(edgedata, k))

CountStep ==
    \A k \in MetaKeys :
        LET c == countOf(edgemeta, k)
            d == countOf(edgemeta', k)
        IN /\ d = c + 1 <=> (Inserted(call', ret') /\ KeyOf(call') = k)
           /\ d = c - 1 <=> (Removed(call', ret') /\ KeyOf(call') = k)
           /\ d \in {c - 1, c, c + 1}
           /\ (Overwrote(call', ret') /\ KeyOf(call') = k) => d = c

\* C1: for every (edgetype, gid1), EdgeMeta.count equals the number of edgedata
\* rows stored under it; a call raises it by one exactly when it is an add that
\* inserted a row under that pair, lowers it by one exactly when it is a delete
\* that removed a row under that pair, and an overwriting add leaves it alone.
CountIsRowCount == []CountMatchesRows /\ [][CountStep]_vars

\* two edges were added under one parent and one of them was deleted
CountAfterDelete ==
    /\ Removed(call, ret)
    /\ countOf(edgemeta, KeyOf(call)) = 1
    /\ Cardinality(RowsUnder(edgedata, KeyOf(call))) = 1

\* C2 as claimed: every row of edgeindex carries the gid1 and the current
\* revision of a live edge whose indices list held that (indextype, indexvalue),
\* whatever indices and indextypes lists the calls were given.
IndexRowsOfLiveEdges ==
    \A r \in DOMAIN edgeindex :
        \E pk \in DOMAIN edgedata :
            /\ pk[2] = r[3]
            /\ edgedata[pk].revision = r[4]
            /\ \E i \in Range(written[pk]) : i[1] = r[1] /\ i[2] = r[2]

\* C2 as amended: the same, as long as every delete so far named all the
\* indextypes the deleted edge was added with and every overwriting add so far
\* gave indices of all the indextypes of the version it replaced.
CoveredIndexRowsOfLiveEdges == covering => IndexRowsOfLiveEdges

\* an edge was overwritten a second time, with two index entries that cover
\* what it had, and the two rows of the new version are all the index holds
CoveredOverwrite ==
    /\ covering
    /\ Overwrote(call, ret)
    /\ ret.revision = 3
    /\ Len(written[PKOf(call)]) = 2
    /\ BagCardinality(edgeindex) = 2

\* C3 as claimed: in an add with overwrite = true on a primary key that
\* exists, the assertion on the previous revision never fails; the add
\* succeeds (unless a unique index refuses it), stores the new revision on the
\* row and leaves the count of the parent unchanged.
OverwriteOfExistingSucceeds ==
    [][(/\ call'.op = "add"
        /\ call'.overwrite
        /\ PKOf(call') \in DOMAIN edgedata)
       => IF ret'.kind = "error"
            THEN ret'.error = "unique assertion"
            ELSE /\ ret'.affected = 2
                 /\ edgedata'[PKOf(call')].revision = ret'.revision
                 /\ countOf(edgemeta', KeyOf(call')) = countOf(edgemeta, KeyOf(call'))]_vars

RowsAt(t, v) == BagCount(edgeindex, {r \in DOMAIN edgeindex : r[1] = t /\ r[2] = v})

\* C4: an (indextype, indexvalue) that every add passes with unique = true has
\* at most one row in edgeindex.
UniqueIndexHasOneRow ==
    \A e \in IndexEntries : e[3] => RowsAt(e[1], e[2]) <= 1

\* an add was refused because the unique pair already had its row
UniqueAddRefused ==
    /\ call.op = "add"
    /\ ret.kind = "error"
    /\ ret.error = "unique assertion"
    /\ \E e \in IndexEntries : e[3] /\ RowsAt(e[1], e[2]) = 1

RevisionStep ==
    \A k \in MetaKeys :
        LET r == revisionOf(edgemeta, k)
            n == revisionOf(edgemeta', k)
            mine == Committed(call', ret') /\ KeyOf(call') = k
        IN /\ n = IF mine THEN r + 1 ELSE r
           /\ (mine /\ call'.op = "add") =>
                 /\ ret'.revision = n
                 /\ edgedata'[PKOf(call')].revision = n
           /\ \A pk \in RowsUnder(edgedata', k) :
                 (pk \notin DOMAIN edgedata \/ edgedata'[pk] # edgedata[pk]) =>
                     (mine /\ call'.op = "add" /\ pk = PKOf(call'))

RevisionsBelowMeta ==
    \A pk \in DOMAIN edgedata :
        /\ edgedata[pk].revision >= 1
        /\ edgedata[pk].revision <= revisionOf(edgemeta, <<pk[1], pk[2]>>)

\* C5: under each (edgetype, gid1) every committed add and delete (a delete
\* that finds no edge included) raises EdgeMeta.revision by exactly one, from 0
\* for a parent never written, and nothing else changes it, so the revisions
\* issued are 1, 2, 3, ...; an add stores the revision just issued on the row it
\* writes, and no row ever carries a revision above EdgeMeta.revision, so the
\* stored revision exceeds every revision that primary key held before.
RevisionsAreGapFree == []RevisionsBelowMeta /\ [][RevisionStep]_vars

\* a delete that found no edge took revision 3 after two earlier mutations
ThirdRevisionIssued ==
    /\ call.op = "delete"
    /\ ret.kind = "bool"
    /\ ~ret.value
    /\ revisionOf(edgemeta, KeyOf(call)) = 3

\* C6: an add that fails leaves edgedata, edgemeta and edgeindex as they were
\* before the call.
FailedAddChangesNothing ==
    [][(call'.op = "add" /\ ret'.kind = "error") => tables' = tables]_vars

\* an add failed on its second index entry, after it had issued a revision,
\* written the edge, raised the count and written an index row
AddFailedAfterWrites ==
    /\ call.op = "add"
    /\ ret.kind = "error"
    /\ ret.error = "unique assertion"
    /\ edgeindex = EmptyBag
    /\ edgedata # <<>>

\* C7 as claimed: an indexed query under a parent and an indexed get return an
\* edge only if that edge has an index row of the indextype, written with the
\* edge's current version, whose value lies in the range.
IndexedReadsReturnIndexedEdges ==
    (/\ call.op \in {"query", "get"}
     /\ call.index # None
     /\ call.op = "query" => call.gid1 # None)
    => \A row \in ret.rows :
          \E r \in DOMAIN edgeindex :
              /\ r[1] = call.index[1]
              /\ call.index[2][1] <= r[2] /\ r[2] <= call.index[2][2]
              /\ r[3] = row[2]
              /\ r[4] = row[4]
              /\ \E i \in Range(written[<<row[1], row[2], row[3]>>]) :
                    i[1] = r[1] /\ i[2] = r[2]

AddThenDelete == Inserted(call, ret) /\ call'.op = "delete" /\ PKOf(call') = PKOf(call)

\* C15 as claimed: when the add of a new edge is followed by the delete of
\* that edge, whatever the indices list and the indextypes list, the delete
\* returns true, lowers the count of the parent by the one the add raised it
\* by, and leaves no edgeindex row of that gid1 with the revision of the
\* deleted edge.
AddThenDeleteLeavesNoIndex ==
    [][AddThenDelete =>
          /\ ret' = [kind |-> "bool", value |-> TRUE]
          /\ countOf(edgemeta', KeyOf(call)) = countOf(edgemeta, KeyOf(call)) - 1
          /\ \A r \in DOMAIN edgeindex' : ~(r[3] = call.gid1 /\ r[4] = ret.revision)]_vars

\* C15 as amended: the delete returns true and restores the count whatever the
\* lists; when indextypes names every indextype of indices, it leaves no
\* edgeindex row of that gid1, of an indextype of indices, with the revision of
\* the deleted edge.
AddThenCoveringDeleteLeavesNoIndex ==
    [][AddThenDelete =>
          /\ ret' = [kind |-> "bool", value |-> TRUE]
          /\ countOf(edgemeta', KeyOf(call)) = countOf(edgemeta, KeyOf(call)) - 1
          /\ TypesOf(PKOf(call)) \subseteq Range(call'.indextypes) =>
                \A r \in DOMAIN edgeindex' :
                    ~(r[1] \in TypesOf(PKOf(call)) /\ r[3] = call.gid1 /\ r[4] = ret.revision)]_vars

\* an edge was added and then deleted with both indextypes named: its parent
\* is at revision 2 with count 0 and the index is empty
AddedThenDeletedWithBothTypes ==
    /\ Removed(call, ret)
    /\ call.indextypes = <<3, 4>>
    /\ edgemeta = [k \in {KeyOf(call)} |-> [revision |-> 2, count |-> 0]]
    /\ edgeindex = EmptyBag
    /\ edgedata = <<>>

\* C17: a delete of a primary key that has no edge row returns false, leaves
\* edgedata and edgeindex as they were, leaves the count of the parent, and
\* raises the revision of the parent by exactly one; for a parent never written
\* it creates the edgemeta row with revision 1 and count 0, and it touches the
\* edgemeta row of no other parent.
DeleteOfMissingOnlyAdvancesRevision ==
    [][(call'.op = "delete" /\ PKOf(call') \notin DOMAIN edgedata) =>
          LET k == KeyOf(call')
          IN /\ ret' = [kind |-> "bool", value |-> FALSE]
             /\ edgedata' = edgedata
             /\ edgeindex' = edgeindex
             /\ DOMAIN edgemeta' = DOMAIN edgemeta \cup {k}
             /\ \A x \in DOMAIN edgemeta \ {k} : edgemeta'[x] = edgemeta[x]
             /\ edgemeta'[k].count = countOf(edgemeta, k)
             /\ edgemeta'[k].revision = revisionOf(edgemeta, k) + 1
             /\ k \notin DOMAIN edgemeta => edgemeta'[k] = [revision |-> 1, count |-> 0]]_vars

\* a delete with an indextypes list found no edge under a parent never written
\* while another parent holds an indexed edge
MissingDeletedUnderNewParent ==
    /\ call.op = "delete"
    /\ ret = [kind |-> "bool", value |-> FALSE]
    /\ call.indextypes # <<>>
    /\ edgemeta[KeyOf(call)] = [revision |-> 1, count |-> 0]
    /\ edgedata # <<>>
    /\ edgeindex # EmptyBag

OtherEdgesKeepIndexRows ==
    \A pk \in DOMAIN edgedata \ {PKOf(call')} :
        \A i \in Range(written[pk]) :
            LET row == <<i[1], i[2], pk[2], edgedata[pk].revision>>
            IN row \in DOMAIN edgeindex => row \in DOMAIN edgeindex'

\* C18 as claimed: a delete that removed an edge and an add that overwrote one
\* leave in edgeindex every row that was written for another live edge, an edge
\* of another edgetype under the same gid1 with the same revision number
\* included.
IndexDeletesTouchOwnEdgeOnly ==
    [][(Removed(call', ret') \/ Overwrote(call', ret')) => OtherEdgesKeepIndexRows]_vars

\* C13 as claimed: after an add that succeeded, lastAddWasOverwrite of the
\* shard and of the EdgeStore are true exactly when that add updated an
\* existing row; after an add that inserted a row both are false.
OverwriteFlagIsVerdict ==
    (call.op = "add" /\ ret.kind = "edge") =>
        /\ shardOverwrite = (ret.affected = 2)
        /\ lastAddWasOverwrite = (ret.affected = 2)

\* C14 as claimed: two callers whose last getInstance calls passed the same
\* dbname hold the same EdgeStore object.
GetInstanceIsSingleton ==
    \A t, u \in Callers :
        (handle[t] # None /\ handle[u] # None /\ handle[t].dbname = handle[u].dbname)
            => handle[t].ref = handle[u].ref

----------------------------------------------------------------------------
(* Properties of gids and lock scopes *)

\* C8 as claimed: no gid that EdgeStore.generateGid returns was returned by an
\* earlier call of it.
GidsNeverRepeat == call.op = "generateGid" => ~ret.before

InScope(t, c, kinds) == \E i \in DOMAIN stack[t] : stack[t][i].colo = c /\ stack[t][i].kind \in kinds
Held(t, c) == InScope(t, c, {"held"})
ProbeDone(conn, c) == txn[conn].active /\ c \in DOMAIN txn[conn].undo /\ rowlock[c] = conn

HeldByOneConnection ==
    \A c \in Colos : \A t, u \in Tasks :
        /\ Held(t, c) => ProbeDone(connOf(facadeOf[t], c), c)
        /\ (Held(t, c) /\ Held(u, c)) => connOf(facadeOf[t], c) = connOf(facadeOf[u], c)

ProbeAfterRelease ==
    call'.op = "probe" =>
        \A conn \in Conns \ {connOf(facadeOf[call'.task], call'.colo)} :
            ~ProbeDone(conn, call'.colo)

\* C9: the body of a first lock(C) entry runs only while the transaction of
\* its connection has probed C and is still open, two tasks on different
\* connections are never both in such a body, and a probe for C completes only
\* when no transaction of another connection that probed C is still open.
LockScopesExclusive == []HeldByOneConnection /\ [][ProbeAfterRelease]_vars

\* a task of one process is in its lock scope while a task of the other
\* process waits in its probe
HolderAndWaiter ==
    /\ Held("a1", 5)
    /\ stack["b1"] # <<>>
    /\ Top("b1").kind = "waiting"

NestedStep ==
    /\ (call'.op = "lock" /\ call'.colo \in locked_colos[facadeOf[call'.task]]) =>
          /\ call'.nested
          /\ stack'[call'.task][Len(stack'[call'.task])].kind = "nested"
          /\ UNCHANGED <<colo, rowlock, txn, locked_colos>>
    /\ (call'.op \in {"exit", "raise"} /\ Top(call'.task).kind = "nested") =>
          /\ call'.nested
          /\ UNCHANGED <<colo, rowlock, txn, locked_colos>>

MarkedWhileInScope ==
    \A t \in Tasks, c \in Colos :
        InScope(t, c, {"waiting", "held"}) => c \in locked_colos[facadeOf[t]]

\* C10: a lock(C) entered while C is in the locked-colos set of the process
\* opens no transaction and runs no probe, its exit (normal or by exception)
\* ends no transaction and leaves the set alone, and C is in the set for as
\* long as a first entry for C is in progress.
NestedLockIsNoop == []MarkedWhileInScope /\ [][NestedStep]_vars

\* a task left a scope nested in its own first entry, which is still held and marked
NestedScopeLeft ==
    /\ call.op \in {"exit", "raise"}
    /\ call.nested
    /\ Held(call.task, call.colo)
    /\ call.colo \in locked_colos[facadeOf[call.task]]

ScopeEnds == {"exit", "raise", "probe failed", "open failed"}

OutermostScopeEnds ==
    (call'.op \in ScopeEnds /\ ~call'.nested) =>
        LET c == call'.colo
            f == facadeOf[call'.task]
            conn == connOf(f, c)
            undo == txn[conn].undo
        IN /\ c \notin locked_colos'[f]
           /\ txn'[conn] = [active |-> FALSE, undo |-> <<>>]
           /\ rowlock'[c] # conn
           /\ IF call'.op = "exit" \/ c \notin DOMAIN undo
                THEN colo' = colo
                ELSE IF undo[c] = <<>>
                       THEN c \notin DOMAIN colo'
                       ELSE colo'[c] = undo[c][1]

LaterLockStartsAgain ==
    /\ (call'.op = "lock" /\ call'.colo \notin locked_colos[facadeOf[call'.task]]) =>
          LET c == call'.colo
              conn == connOf(facadeOf[call'.task], c)
          IN /\ ~call'.nested
             /\ ~txn[conn].active
             /\ txn'[conn] = [active |-> TRUE, undo |-> <<>>]
             /\ stack'[call'.task][Len(stack'[call'.task])].kind = "waiting"
    /\ \A t \in Tasks :
          (/\ stack'[t] # <<>>
           /\ stack'[t][Len(stack'[t])].kind = "held"
           /\ stack'[t] # stack[t]
           /\ Len(stack'[t]) >= Len(stack[t]))
          => (call'.op = "probe" /\ call'.task = t /\ call'.colo \in DOMAIN colo')

\* C11: when a first lock(C) entry ends -- its body exits, its body raises, its
\* probe fails or its transaction cannot be opened -- C is out of the
\* locked-colos set of the process, the transaction of the connection is closed
\* and holds no row, and the colo table is as the transaction left it on a
\* normal exit and as it was before the transaction otherwise; a lock(C)
\* entered while C is not in the set opens a transaction, and its body starts
\* only with a probe of its own.
OutermostLockReleases == [][OutermostScopeEnds /\ LaterLockStartsAgain]_vars

\* a lock scope was committed, a later one probed the row again and raised,
\* and the row is back at the counter the first scope left
SecondScopeRolledBack ==
    /\ call.op = "raise"
    /\ ~call.nested
    /\ returned = {}
    /\ 5 \in DOMAIN colo
    /\ colo[5] = 0
    /\ 5 \notin locked_colos[facadeOf[call.task]]
    /\ ~txn[connOf(facadeOf[call.task], 5)].active

\* C16 as claimed, for n = 1: the first generateGid(colo = C) ever called,
\* when it runs outside a transaction and so commits at once, returns
\* (C << 32) | 1, whatever lock(C) scopes were committed before it.
ProbesLeaveGidsAlone ==
    [][(/\ call'.op = "generateGid"
        /\ returned = {}
        /\ ~txn[connOf(facadeOf[call'.task], call'.colo)].active)
       => ret'.gid = Gid(call'.colo, 1)]_vars

InBody(t, c) == InScope(t, c, {"held", "nested"}) /\ ~Blocked(t)

\* C20 as claimed: no task enters lock(C) as a nested entry of a scope that
\* another task of its process opened, and two tasks of one process are never
\* both in the body of a lock(C) scope.
TasksOfOneFacadeSerialize ==
    /\ \A t \in Tasks : stack[t] # <<>> => stack[t][1].kind # "nested"
    /\ \A t, u \in Tasks, c \in Colos :
          (t # u /\ facadeOf[t] = facadeOf[u]) => ~(InBody(t, c) /\ InBody(u, c))

----------------------------------------------------------------------------
(* Properties of concurrent transactions *)

Began(conn) == ~Busy(conn) /\ inflight'[conn].pc # "idle"
CommittedNow(conn) == inflight[conn].pc = "commit" /\ inflight'[conn].pc = "idle"
                      /\ inflight'[conn].result.kind # "error"

OneWriterPerParent ==
    \A c1, c2 \in ConcConns :
        (c1 # c2 /\ Busy(c1) /\ Busy(c2)) => ParentOf(c1) # ParentOf(c2)

CountSettled ==
    \A k \in MetaKeys :
        (\A conn \in ConcConns : Busy(conn) => ParentOf(conn) # k)
            => countOf(edgemeta, k) = Cardinality(RowsUnder(edgedata, k))

RevisionAboveCommitted ==
    \A conn \in ConcConns :
        /\ Began(conn) =>
              LET k == <<inflight'[conn].args.edgetype, inflight'[conn].args.gid1>>
              IN /\ inflight'[conn].revision = revisionOf(edgemeta, k) + 1
                 /\ \A r \in revlog[k] : inflight'[conn].revision > r
        /\ CommittedNow(conn) => inflight[conn].revision \notin revlog[ParentOf(conn)]

RevisionNeverObtainedBefore ==
    \A conn \in ConcConns :
        Began(conn) =>
            LET last == inflight[Other(conn)].result
            IN ~ /\ ~Busy(Other(conn))
                 /\ last.kind # "none"
                 /\ last.parent = <<inflight'[conn].args.edgetype, inflight'[conn].args.gid1>>
                 /\ last.revision = inflight'[conn].revision

\* C12 as claimed: two transactions under one (edgetype, gid1) are never open
\* together, no transaction obtains the revision that the transaction the
\* other connection has just ended obtained under that parent, every revision obtained is above every revision committed before
\* the transaction began, and the count of a parent no open transaction is
\* writing equals the number of its edge rows.
ConcurrentRevisionsNeverShared ==
    /\ []OneWriterPerParent
    /\ []CountSettled
    /\ [][RevisionAboveCommitted /\ RevisionNeverObtainedBefore]_vars

\* C12 as amended: the same, where only the transactions that commit obtain
\* different revisions; after a rollback the next transaction obtains the
\* revision the rolled-back one had.
ConcurrentRevisionsSerialized ==
    /\ []OneWriterPerParent
    /\ []CountSettled
    /\ [][RevisionAboveCommitted]_vars

\* both connections have committed an insert under one parent, with revisions
\* 1 and 2, and a third transaction under that parent is open
BothCommittedThirdOpen ==
    \E c1 \in ConcConns :
        LET c2 == Other(c1)
        IN /\ Busy(c1)
           /\ inflight[c2].result.kind = "edge"
           /\ inflight[c2].result.parent = ParentOf(c1)
           /\ inflight[c2].result.revision = 2
           /\ revlog[ParentOf(c1)] = {1, 2}
           /\ inflight[c1].revision = 3
           /\ countOf(edgemeta, ParentOf(c1)) = 2

\* C19 as claimed: whatever way the statements of two transactions on
\* different connections interleave, the committed rows of edgeindex hold at
\* most one row for an (indextype, indexvalue) that every add passes with
\* unique = true.
UniqueSurvivesConcurrency ==
    \A entry \in UNION {Range(l) : l \in ConcIndicesLists} :
        entry[3] =>
            BagCount(CommittedIndex,
                     {r \in DOMAIN CommittedIndex : r[1] = entry[1] /\ r[2] = entry[2]}) <= 1

============================================================================
